---- MODULE Spec2Model ----
(***************************************************************************)
(* Strategy metadata registry of rogue/server/red_teaming/                 *)
(* strategy_metadata.py: the module-level dict STRATEGY_REGISTRY, the      *)
(* accessors get_strategy_metadata, get_all_strategies,                    *)
(* is_human_exploitable, get_complexity and the mutator register_strategy. *)
(*                                                                         *)
(* Strings are sequences of characters (one-character strings; a Greek     *)
(* letter is written as its code point, "U+03A3"), so that str.lower() is  *)
(* computed character by character as CPython computes it.                 *)
(***************************************************************************)
EXTENDS Integers, Sequences, FiniteSets, TLC

VARIABLES
    STRATEGY_REGISTRY,  \* the module-level dict: key -> StrategyMetadata object
    call,               \* the latest call: [op, strategy_id, args]
    prev,               \* the call made just before it, kept if it was a register_strategy
    ret,                \* the value the latest call returned, as the caller holds it
    registered,         \* history: the keys register_strategy has written so far
    nregs,              \* history: number of register_strategy calls so far
    nmuts               \* history: number of mutations the caller made to a returned dict

vars == <<STRATEGY_REGISTRY, call, prev, ret, registered, nregs, nmuts>>

\* Bound on the number of register_strategy calls in a run.
MaxRegs == 2

\* Bound on the number of mutations a caller applies to a returned dict.
MaxMuts == 2

---------------------------------------------------------------------------
(* Characters and str.lower()                                              *)

UpperLetters ==
    <<"A", "B", "C", "D", "E", "F", "G", "H", "I", "J", "K", "L", "M",
      "N", "O", "P", "Q", "R", "S", "T", "U", "V", "W", "X", "Y", "Z">>

LowerLetters ==
    <<"a", "b", "c", "d", "e", "f", "g", "h", "i", "j", "k", "l", "m",
      "n", "o", "p", "q", "r", "s", "t", "u", "v", "w", "x", "y", "z">>

CAPITAL_SIGMA == "U+03A3"
SMALL_SIGMA == "U+03C3"
FINAL_SIGMA == "U+03C2"

\* The simple (context-free) lowercase mapping, for the characters that
\* have one: A-Z and the capital sigma.
SimpleLowercase ==
    [c \in {UpperLetters[i] : i \in 1..26} \cup {CAPITAL_SIGMA} |->
        IF c = CAPITAL_SIGMA
        THEN SMALL_SIGMA
        ELSE LowerLetters[CHOOSE i \in 1..26 : UpperLetters[i] = c]]

IsUpperChar(c) == c \in DOMAIN SimpleLowercase

IsLowerChar(c) ==
    c \in {SimpleLowercase[u] : u \in DOMAIN SimpleLowercase} \cup {FINAL_SIGMA}

\* A cased character: one with an upper- or lower-case form.
IsCased(c) == IsUpperChar(c) \/ IsLowerChar(c)

\* Lowercase of one character out of context; digits, "_" and "-" have no
\* case and map to themselves.
LowerChar(c) == IF c \in DOMAIN SimpleLowercase THEN SimpleLowercase[c] ELSE c

\* CPython's final-sigma rule: a capital sigma lowercases to the final form
\* when a cased character precedes it and none follows it.  (None of the
\* characters modelled here is case-ignorable, so the neighbours are the
\* adjacent characters.)
FinalSigmaAt(s, i) ==
    /\ s[i] = CAPITAL_SIGMA
    /\ i > 1 /\ IsCased(s[i - 1])
    /\ ~(i < Len(s) /\ IsCased(s[i + 1]))

\* str.lower()
Lower(s) ==
    [i \in 1..Len(s) |->
        IF FinalSigmaAt(s, i) THEN FINAL_SIGMA ELSE LowerChar(s[i])]

---------------------------------------------------------------------------
(* StrategyMetadata and the built-in registry                               *)

\* Optional[str]: None is the empty sequence, a present string s is <<s>>.
None == <<>>

Some(s) == <<s>>

\* Literal["low", "medium", "high"]
Complexity == {"low", "medium", "high"}

\* The dataclass constructor.
StrategyMetadata(human_exploitable, complexity, description, category) ==
    [human_exploitable |-> human_exploitable,
     complexity |-> complexity,
     description |-> description,
     category |-> category]

\* The dict literal, as <<key, value>> pairs in source order.
BUILTIN_ENTRIES ==
    <<
       <<<<"b", "a", "s", "e", "6", "4">>,
         StrategyMetadata(TRUE, "low",
           "Encode malicious prompts in Base64 to bypass filters",
           Some("LLM_01"))>>,
       <<<<"r", "o", "t", "1", "3">>,
         StrategyMetadata(TRUE, "low",
           "Use ROT13 encoding to obfuscate malicious content",
           Some("LLM_01"))>>,
       <<<<"l", "e", "e", "t", "s", "p", "e", "a", "k">>,
         StrategyMetadata(TRUE, "low",
           "Use leetspeak substitutions to bypass keyword filters",
           Some("LLM_01"))>>,
       <<<<"p", "a", "y", "l", "o", "a", "d", "_", "s", "p", "l", "i", "t", "t", "i", "n", "g">>,
         StrategyMetadata(TRUE, "medium",
           "Split malicious payload across multiple inputs",
           Some("LLM_01"))>>,
       <<<<"j", "a", "i", "l", "b", "r", "e", "a", "k", "_", "l", "i", "n", "e", "a", "r">>,
         StrategyMetadata(TRUE, "low",
           "Direct jailbreak attempt with single prompt",
           Some("LLM_01"))>>,
       <<<<"p", "r", "o", "m", "p", "t", "_", "i", "n", "j", "e", "c", "t", "i", "o", "n">>,
         StrategyMetadata(TRUE, "low",
           "Inject malicious instructions into prompts",
           Some("LLM_01"))>>,
       <<<<"r", "o", "l", "e", "_", "p", "l", "a", "y">>,
         StrategyMetadata(TRUE, "medium",
           "Use role-playing scenarios to bypass restrictions",
           Some("LLM_01"))>>,
       <<<<"m", "u", "l", "t", "i", "l", "i", "n", "g", "u", "a", "l">>,
         StrategyMetadata(TRUE, "medium",
           "Use non-English languages to evade filters",
           Some("LLM_01"))>>,
       <<<<"c", "r", "e", "s", "c", "e", "n", "d", "o">>,
         StrategyMetadata(TRUE, "medium",
           "Gradually escalate malicious requests over multiple turns",
           Some("LLM_01"))>>,
       <<<<"t", "r", "e", "e">>,
         StrategyMetadata(FALSE, "high",
           "Explore multiple attack paths in tree structure",
           Some("LLM_01"))>>,
       <<<<"l", "i", "n", "e", "a", "r", "_", "m", "u", "l", "t", "i", "_", "t", "u", "r", "n">>,
         StrategyMetadata(TRUE, "low",
           "Simple multi-turn conversation with escalating requests",
           Some("LLM_01"))>>,
       <<<<"h", "y", "d", "r", "a">>,
         StrategyMetadata(FALSE, "high",
           "Branching conversations with backtracking and automated iteration",
           Some("LLM_01"))>>,
       <<<<"g", "o", "a", "t">>,
         StrategyMetadata(FALSE, "high",
           "Generative Offensive Agent Tester - continuous agentic testing",
           Some("LLM_01"))>>,
       <<<<"i", "t", "e", "r", "a", "t", "i", "v", "e", "_", "b", "a", "s", "i", "c">>,
         StrategyMetadata(FALSE, "medium",
           "Iterative refinement of single attack based on responses",
           Some("LLM_01"))>>,
       <<<<"i", "t", "e", "r", "a", "t", "i", "v", "e", "_", "t", "r", "e", "e">>,
         StrategyMetadata(FALSE, "high",
           "Tree-based iterative jailbreaks with parallel branches",
           Some("LLM_01"))>>,
       <<<<"i", "t", "e", "r", "a", "t", "i", "v", "e", "_", "m", "e", "t", "a">>,
         StrategyMetadata(FALSE, "high",
           "Meta-agent directed iterative attacks with strategic guidance",
           Some("LLM_01"))>>,
       <<<<"s", "i", "m", "b", "a">>,
         StrategyMetadata(FALSE, "high",
           "Multi-phase red team: Recon → Probing → Planning → Attack",
           Some("LLM_01"))>>,
       <<<<"m", "i", "s", "c", "h", "i", "e", "v", "o", "u", "s", "_", "u", "s", "e", "r">>,
         StrategyMetadata(TRUE, "low",
           "Simulates problematic user behavior patterns",
           Some("LLM_01"))>>,
       <<<<"p", "i", "i", "_", "e", "x", "t", "r", "a", "c", "t", "i", "o", "n">>,
         StrategyMetadata(TRUE, "low",
           "Attempt to extract personally identifiable information",
           Some("LLM_06"))>>,
       <<<<"s", "y", "s", "t", "e", "m", "_", "p", "r", "o", "m", "p", "t", "_", "l", "e", "a", "k">>,
         StrategyMetadata(TRUE, "low",
           "Attempt to leak system prompts or instructions",
           Some("LLM_06"))>>,
       <<<<"h", "t", "m", "l", "-", "i", "n", "d", "i", "r", "e", "c", "t", "-", "p", "r", "o", "m", "p", "t", "-", "i", "n", "j", "e", "c", "t", "i", "o", "n">>,
         StrategyMetadata(TRUE, "low",
           "Inject hidden instructions via HTML served to web-browsing agents",
           Some("LLM_02"))>>,
       <<<<"s", "q", "l", "_", "i", "n", "j", "e", "c", "t", "i", "o", "n">>,
         StrategyMetadata(TRUE, "medium",
           "SQL injection attempts via LLM outputs",
           Some("LLM_02"))>>,
       <<<<"c", "r", "o", "s", "s", "_", "s", "i", "t", "e", "_", "s", "c", "r", "i", "p", "t", "i", "n", "g">>,
         StrategyMetadata(TRUE, "medium",
           "XSS attacks via LLM-generated content",
           Some("LLM_02"))>>,
       <<<<"u", "n", "a", "u", "t", "h", "o", "r", "i", "z", "e", "d", "_", "a", "c", "t", "i", "o", "n">>,
         StrategyMetadata(TRUE, "medium",
           "Trigger unauthorized actions or tool usage",
           Some("LLM_08"))>>,
       <<<<"u", "n", "k", "n", "o", "w", "n">>,
         StrategyMetadata(FALSE, "medium",
           "Unknown or unclassified attack strategy",
           None)>>
    >>

\* The key of the fallback entry, "unknown".
KEY_unknown == <<"u", "n", "k", "n", "o", "w", "n">>

\* Mutant: the table with "tree" marked human-exploitable.
InitialRegistry_tree_exploitable ==
    [k \in {BUILTIN_ENTRIES[i][1] : i \in 1..Len(BUILTIN_ENTRIES)} |->
        LET md == BUILTIN_ENTRIES[CHOOSE i \in 1..Len(BUILTIN_ENTRIES) :
                                     BUILTIN_ENTRIES[i][1] = k][2]
        IN  IF k = <<"t", "r", "e", "e">>
            THEN [md EXCEPT !.human_exploitable = TRUE]
            ELSE md]

\* STRATEGY_REGISTRY as the dict literal builds it.
InitialRegistry ==
    [k \in {BUILTIN_ENTRIES[i][1] : i \in 1..Len(BUILTIN_ENTRIES)} |->
        BUILTIN_ENTRIES[CHOOSE i \in 1..Len(BUILTIN_ENTRIES) :
                            BUILTIN_ENTRIES[i][1] = k][2]]

---------------------------------------------------------------------------
(* Objects.  A dict value is a reference to a StrategyMetadata object; the  *)
(* dataclass is not frozen, so an object can be changed through any         *)
(* reference to it.  Every value of STRATEGY_REGISTRY is an object of its   *)
(* own, so the object stored under key k is named by k; an object the       *)
(* caller built itself carries its fields.                                  *)

ObjectAt(k) == [shared |-> TRUE, key |-> k]

NewObject(md) == [shared |-> FALSE, val |-> md]

Deref(o) == IF o.shared THEN STRATEGY_REGISTRY[o.key] ELSE o.val

\* What a call hands back: a value of some kind, or an exception raised.
Returned(kind, value) == [kind |-> kind, value |-> value]

\* The exception a failed dict subscript raises.
KeyError == Returned("raise", "KeyError")

---------------------------------------------------------------------------
(* The functions of the module, as functions of the current registry        *)

\* Mutant: the lookup without a default, STRATEGY_REGISTRY.get(key).
get_strategy_metadata_no_default(strategy_id) ==
    LET key == Lower(strategy_id)
    IN  IF key \in DOMAIN STRATEGY_REGISTRY
        THEN Returned("StrategyMetadata", ObjectAt(key))
        ELSE Returned("None", <<>>)

\* Mutant: the default is the "unknown" entry as it was at import, not the
\* entry now in the registry.
get_strategy_metadata_import_default(strategy_id) ==
    LET key == Lower(strategy_id)
    IN  IF key \in DOMAIN STRATEGY_REGISTRY
        THEN Returned("StrategyMetadata", ObjectAt(key))
        ELSE Returned("StrategyMetadata", NewObject(InitialRegistry[KEY_unknown]))

\* Mutant: the lookup without .lower().
get_strategy_metadata_case_sensitive(strategy_id) ==
    IF strategy_id \in DOMAIN STRATEGY_REGISTRY
    THEN Returned("StrategyMetadata", ObjectAt(strategy_id))
    ELSE Returned("StrategyMetadata", ObjectAt(KEY_unknown))

\* STRATEGY_REGISTRY.get(strategy_id.lower(), STRATEGY_REGISTRY["unknown"]):
\* the default is evaluated before the lookup, found or not.
get_strategy_metadata(strategy_id) ==
    IF KEY_unknown \notin DOMAIN STRATEGY_REGISTRY
    THEN KeyError
    ELSE LET key == Lower(strategy_id)
         IN  IF key \in DOMAIN STRATEGY_REGISTRY
             THEN Returned("StrategyMetadata", ObjectAt(key))
             ELSE Returned("StrategyMetadata", ObjectAt(KEY_unknown))

\* Mutant: an update that keeps the old category when none is given.
register_strategy_merge(strategy_id, human_exploitable, complexity, description, category) ==
    LET key == Lower(strategy_id)
        kept == IF category = None /\ key \in DOMAIN STRATEGY_REGISTRY
                THEN STRATEGY_REGISTRY[key].category
                ELSE category
        new == StrategyMetadata(human_exploitable, complexity, description, kept)
    IN  [k \in DOMAIN STRATEGY_REGISTRY \cup {key} |->
            IF k = key THEN new ELSE STRATEGY_REGISTRY[k]]

\* Mutant: complexity and description passed in each other's place.
register_strategy_swapped(strategy_id, human_exploitable, complexity, description, category) ==
    LET key == Lower(strategy_id)
        new == StrategyMetadata(human_exploitable, description, complexity, category)
    IN  [k \in DOMAIN STRATEGY_REGISTRY \cup {key} |->
            IF k = key THEN new ELSE STRATEGY_REGISTRY[k]]

\* Mutant: the key stored as given, without .lower().
register_strategy_raw_key(strategy_id, human_exploitable, complexity, description, category) ==
    LET new == StrategyMetadata(human_exploitable, complexity, description, category)
    IN  [k \in DOMAIN STRATEGY_REGISTRY \cup {strategy_id} |->
            IF k = strategy_id THEN new ELSE STRATEGY_REGISTRY[k]]

\* Mutant: the registry rebuilt from the built-in table plus the new entry.
register_strategy_rebuild(strategy_id, human_exploitable, complexity, description, category) ==
    LET key == Lower(strategy_id)
        new == StrategyMetadata(human_exploitable, complexity, description, category)
    IN  [k \in DOMAIN InitialRegistry \cup {key} |->
            IF k = key THEN new ELSE InitialRegistry[k]]

\* The dict after STRATEGY_REGISTRY[strategy_id.lower()] = StrategyMetadata(...).
register_strategy(strategy_id, human_exploitable, complexity, description, category) ==
    LET key == Lower(strategy_id)
        new == StrategyMetadata(human_exploitable, complexity, description, category)
    IN  [k \in DOMAIN STRATEGY_REGISTRY \cup {key} |->
            IF k = key THEN new ELSE STRATEGY_REGISTRY[k]]

\* STRATEGY_REGISTRY.copy(): a new dict holding the same objects.
get_all_strategies ==
    Returned("dict", [k \in DOMAIN STRATEGY_REGISTRY |-> ObjectAt(k)])

\* Mutant: a lookup of its own that skips .lower().
is_human_exploitable_own_lookup(strategy_id) ==
    IF strategy_id \in DOMAIN STRATEGY_REGISTRY
    THEN Returned("bool", STRATEGY_REGISTRY[strategy_id].human_exploitable)
    ELSE Returned("bool", STRATEGY_REGISTRY[KEY_unknown].human_exploitable)

\* get_strategy_metadata(strategy_id).human_exploitable
is_human_exploitable(strategy_id) ==
    LET m == get_strategy_metadata(strategy_id)
    IN  IF m.kind = "raise" THEN m
        ELSE Returned("bool", Deref(m.value).human_exploitable)

\* get_strategy_metadata(strategy_id).complexity
get_complexity(strategy_id) ==
    LET m == get_strategy_metadata(strategy_id)
    IN  IF m.kind = "raise" THEN m
        ELSE Returned("str", Deref(m.value).complexity)

---------------------------------------------------------------------------
(* Inputs                                                                   *)

ID_base64 == <<"b", "a", "s", "e", "6", "4">>
ID_Base64 == <<"B", "a", "s", "e", "6", "4">>
ID_unknown == <<"u", "n", "k", "n", "o", "w", "n">>
ID_UNKNOWN == <<"U", "N", "K", "N", "O", "W", "N">>
ID_custom1 == <<"c", "u", "s", "t", "o", "m", "1">>
ID_CUSTOM1 == <<"C", "U", "S", "T", "O", "M", "1">>
ID_nonexistent == <<"x", "y", "z">>
ID_a_sigma == <<"a", SMALL_SIGMA>>
ID_A_SIGMA == <<"A", CAPITAL_SIGMA>>

\* The strategy ids callers pass: built-in ids, ids outside the registry,
\* and case variants of both.
StrategyIds ==
    {ID_base64, ID_Base64, ID_unknown, ID_UNKNOWN, ID_custom1,
     ID_CUSTOM1, ID_nonexistent, ID_a_sigma, ID_A_SIGMA}

\* The ids callers register: a built-in id in mixed case, the fallback id
\* in upper case, a new id in both cases and a new non-ASCII id.
RegisterIds == {ID_Base64, ID_UNKNOWN, ID_custom1, ID_CUSTOM1, ID_a_sigma}

\* The (human_exploitable, complexity, description, category) arguments
\* callers pass to register_strategy; category None is the omitted default.
RegisterArgs ==
    {<<TRUE, "high", "test desc", Some("LLM_09")>>,
     <<FALSE, "low", "other desc", None>>,
     <<FALSE, "medium", "test desc", Some("LLM_01")>>}

\* What a caller writes into a dict it was handed: the keys it touches, the
\* object it stores under a key, and the attributes it assigns.
MutationKeys == {ID_base64, ID_nonexistent}

MutationArgs == {<<FALSE, "high", "caller desc", None>>}

MutationFields ==
    {<<"human_exploitable", FALSE>>, <<"complexity", "high">>,
     <<"category", None>>}

---------------------------------------------------------------------------
(* State machine                                                            *)

Call(op, strategy_id, args) == [op |-> op, strategy_id |-> strategy_id, args |-> args]

NoCall == Call("none", <<>>, <<>>)

\* What prev keeps of the call that is being superseded.
Superseded == IF call.op = "register_strategy" THEN call ELSE NoCall

\* A call that returns None.
ReturnedNone == Returned("None", <<>>)

Init ==
    /\ STRATEGY_REGISTRY = InitialRegistry
    /\ call = NoCall
    /\ prev = NoCall
    /\ ret = ReturnedNone
    /\ registered = {}
    /\ nregs = 0
    /\ nmuts = 0

GetStrategyMetadata(strategy_id) ==
    /\ call' = Call("get_strategy_metadata", strategy_id, <<>>)
    /\ prev' = Superseded
    /\ ret' = get_strategy_metadata(strategy_id)
    /\ UNCHANGED <<STRATEGY_REGISTRY, registered, nregs, nmuts>>

RegisterStrategy(strategy_id, a) ==
    /\ nregs < MaxRegs
    /\ a[1] \in BOOLEAN /\ a[2] \in Complexity   \* the parameters' declared types
    /\ STRATEGY_REGISTRY' = register_strategy(strategy_id, a[1], a[2], a[3], a[4])
    /\ call' = Call("register_strategy", strategy_id, a)
    /\ prev' = Superseded
    /\ ret' = ReturnedNone
    /\ registered' = registered \cup {Lower(strategy_id)}
    /\ nregs' = nregs + 1
    /\ UNCHANGED nmuts

GetAllStrategies ==
    /\ call' = Call("get_all_strategies", <<>>, <<>>)
    /\ prev' = Superseded
    /\ ret' = get_all_strategies
    /\ UNCHANGED <<STRATEGY_REGISTRY, registered, nregs, nmuts>>

IsHumanExploitable(strategy_id) ==
    /\ call' = Call("is_human_exploitable", strategy_id, <<>>)
    /\ prev' = Superseded
    /\ ret' = is_human_exploitable(strategy_id)
    /\ UNCHANGED <<STRATEGY_REGISTRY, registered, nregs, nmuts>>

GetComplexity(strategy_id) ==
    /\ call' = Call("get_complexity", strategy_id, <<>>)
    /\ prev' = Superseded
    /\ ret' = get_complexity(strategy_id)
    /\ UNCHANGED <<STRATEGY_REGISTRY, registered, nregs, nmuts>>

Next ==
    \/ \E id \in StrategyIds : GetStrategyMetadata(id)
    \/ \E id \in RegisterIds, a \in RegisterArgs : RegisterStrategy(id, a)
    \/ GetAllStrategies
    \/ \E id \in StrategyIds : IsHumanExploitable(id)
    \/ \E id \in StrategyIds : GetComplexity(id)

Spec == Init /\ [][Next]_vars

---------------------------------------------------------------------------
(* The caller of get_all_strategies working on the dict it got back.  The   *)
(* dict is the caller's own (a copy); its values are the registry's         *)
(* objects until the caller stores objects of its own.                      *)

\* d[k] = StrategyMetadata(...)
DictSetItem(k, a) ==
    /\ ret.kind = "dict"
    /\ nmuts < MaxMuts
    /\ ret' = Returned("dict",
                [j \in DOMAIN ret.value \cup {k} |->
                    IF j = k
                    THEN NewObject(StrategyMetadata(a[1], a[2], a[3], a[4]))
                    ELSE ret.value[j]])
    /\ nmuts' = nmuts + 1
    /\ UNCHANGED <<STRATEGY_REGISTRY, call, prev, registered, nregs>>

\* del d[k]
DictDelItem(k) ==
    /\ ret.kind = "dict"
    /\ nmuts < MaxMuts
    /\ k \in DOMAIN ret.value
    /\ ret' = Returned("dict", [j \in DOMAIN ret.value \ {k} |-> ret.value[j]])
    /\ nmuts' = nmuts + 1
    /\ UNCHANGED <<STRATEGY_REGISTRY, call, prev, registered, nregs>>

\* d[k].field = value: an assignment to an attribute of the object d[k]
\* refers to, which is the registry's own object unless the caller put
\* another one there.
ObjectSetAttr(k, field, value) ==
    /\ ret.kind = "dict"
    /\ nmuts < MaxMuts
    /\ k \in DOMAIN ret.value
    /\ IF ret.value[k].shared
       THEN /\ STRATEGY_REGISTRY' =
                  [STRATEGY_REGISTRY EXCEPT ![ret.value[k].key][field] = value]
            /\ ret' = ret
       ELSE /\ ret' = [ret EXCEPT !.value[k].val[field] = value]
            /\ UNCHANGED STRATEGY_REGISTRY
    /\ nmuts' = nmuts + 1
    /\ UNCHANGED <<call, prev, registered, nregs>>

Mutate ==
    \/ \E k \in MutationKeys, a \in MutationArgs : DictSetItem(k, a)
    \/ \E k \in MutationKeys : DictDelItem(k)
    \/ \E k \in MutationKeys, f \in MutationFields : ObjectSetAttr(k, f[1], f[2])

NextClient == Next \/ Mutate

SpecClient == Init /\ [][NextClient]_vars

---------------------------------------------------------------------------
(* Properties                                                               *)

MetadataFields == {"human_exploitable", "complexity", "description", "category"}

\* The StrategyMetadata a successful get_strategy_metadata(id) hands back.
Looked(id) == Deref(get_strategy_metadata(id).value)

\* The record register_strategy's arguments a describe.
MetadataOf(a) == StrategyMetadata(a[1], a[2], a[3], a[4])

\* s and t are equal up to letter case (differ only in letter case): the
\* same length, and position by position the same character once each
\* letter is replaced by its lowercase letter.
CaseFolded(s) == [i \in 1..Len(s) |-> LowerChar(s[i])]

SameUpToCase(s, t) == CaseFolded(s) = CaseFolded(t)

\* An id of ASCII characters only.
IsAscii(s) ==
    \A i \in 1..Len(s) : s[i] \notin {CAPITAL_SIGMA, SMALL_SIGMA, FINAL_SIGMA}

\* Two ids that str.lower() maps to the same string; among them all pairs of
\* ASCII ids that are equal up to letter case.
SameLowered(s, t) ==
    \/ Lower(s) = Lower(t)
    \/ IsAscii(s) /\ IsAscii(t) /\ SameUpToCase(s, t)

\* The pairs of different ids among the callers' ids that are equal up to
\* letter case, and those with the same str.lower() form.
PairsUpToCase ==
    {p \in StrategyIds \X StrategyIds : p[1] # p[2] /\ SameUpToCase(p[1], p[2])}

PairsSameLowered ==
    {p \in StrategyIds \X StrategyIds : p[1] # p[2] /\ SameLowered(p[1], p[2])}

\* C1: after any sequence of the five operations the key "unknown" is in the
\* registry, and get_strategy_metadata(id) returns a metadata record (it
\* never raises and never returns None) for every id.
C1_UnknownPresentLookupTotal ==
    /\ KEY_unknown \in DOMAIN STRATEGY_REGISTRY
    /\ \A id \in StrategyIds :
          LET r == get_strategy_metadata(id)
          IN  /\ r.kind = "StrategyMetadata"
              /\ DOMAIN Deref(r.value) = MetadataFields
    /\ call.op = "get_strategy_metadata" => ret.kind = "StrategyMetadata"

\* A lookup of an id that is no key, after "aσ" was registered, returned a
\* metadata record.
C1_Witness ==
    /\ Lower(ID_a_sigma) \in registered
    /\ call = Call("get_strategy_metadata", ID_A_SIGMA, <<>>)
    /\ Lower(ID_A_SIGMA) \notin DOMAIN STRATEGY_REGISTRY
    /\ ret.kind = "StrategyMetadata"
    /\ DOMAIN Deref(ret.value) = MetadataFields

\* C2 as stated: in every reachable state, for any id whose lowercase form
\* is not a key, get_strategy_metadata(id) returns a record with
\* human_exploitable = false, complexity = medium and no category.
C2_FallbackHasLiteralFields ==
    \A id \in StrategyIds :
        Lower(id) \notin DOMAIN STRATEGY_REGISTRY =>
            LET m == Looked(id)
            IN  /\ m.human_exploitable = FALSE
                /\ m.complexity = "medium"
                /\ m.category = None

\* C2 amended: for any id whose lowercase form is not a key,
\* get_strategy_metadata(id) returns the entry currently stored under
\* "unknown"; that entry has human_exploitable = false, complexity = medium
\* and no category as long as register_strategy has not been called with an
\* id that lowercases to "unknown".
C2_FallbackIsCurrentUnknownEntry ==
    /\ \A id \in StrategyIds :
          Lower(id) \notin DOMAIN STRATEGY_REGISTRY =>
              LET r == get_strategy_metadata(id)
                  m == Deref(r.value)
              IN  /\ r.kind = "StrategyMetadata"
                  /\ m = STRATEGY_REGISTRY[KEY_unknown]
                  /\ KEY_unknown \notin registered =>
                        /\ m.human_exploitable = FALSE
                        /\ m.complexity = "medium"
                        /\ m.category = None
    /\ (/\ call.op = "get_strategy_metadata"
        /\ Lower(call.strategy_id) \notin DOMAIN STRATEGY_REGISTRY)
          => Deref(ret.value) = STRATEGY_REGISTRY[KEY_unknown]

\* "unknown" was re-registered and a lookup of an unrecognized id returned
\* the new entry.
C2_Witness ==
    /\ KEY_unknown \in registered
    /\ call = Call("get_strategy_metadata", ID_nonexistent, <<>>)
    /\ Lower(ID_nonexistent) \notin DOMAIN STRATEGY_REGISTRY
    /\ Deref(ret.value).complexity = "high"
    /\ Deref(ret.value).human_exploitable = TRUE

\* C3 as stated: register_strategy(id, h, c, d, cat) immediately followed by
\* get_strategy_metadata(id') for any id' equal to id up to letter case
\* returns exactly the fields (h, c, d, cat).
C3_RegisterThenGetUpToCase ==
    (/\ call.op = "get_strategy_metadata"
     /\ prev.op = "register_strategy"
     /\ SameUpToCase(prev.strategy_id, call.strategy_id))
        => /\ ret.kind = "StrategyMetadata"
           /\ Deref(ret.value) = MetadataOf(prev.args)

\* C3 amended: register_strategy(id, h, c, d, cat) immediately followed by
\* get_strategy_metadata(id') for any id' with id'.lower() = id.lower()
\* (every ASCII id' that equals id up to letter case) returns exactly the
\* fields (h, c, d, cat), whether or not the key existed; an omitted
\* category is stored as None, nothing of the old entry is kept.
C3_RegisterThenGetSameLowered ==
    (/\ call.op = "get_strategy_metadata"
     /\ prev.op = "register_strategy"
     /\ SameLowered(prev.strategy_id, call.strategy_id))
        => /\ ret.kind = "StrategyMetadata"
           /\ Deref(ret.value) = MetadataOf(prev.args)

\* The built-in "base64" (category LLM_01) was re-registered as "Base64"
\* with the category omitted and then looked up as "base64": the category
\* is None.
C3_Witness ==
    /\ prev.op = "register_strategy"
    /\ prev.strategy_id = ID_Base64
    /\ prev.args[4] = None
    /\ call = Call("get_strategy_metadata", ID_base64, <<>>)
    /\ InitialRegistry[ID_base64].category = Some("LLM_01")
    /\ Deref(ret.value) = MetadataOf(prev.args)
    /\ Deref(ret.value).category = None

\* C4 as stated: whatever the caller does to the dict get_all_strategies
\* returned (adding, removing or replacing a key, assigning a field of a
\* record reached through it), the live registry stays as it was.
C4_ReturnedDictIsSnapshot ==
    [][nmuts' > nmuts => STRATEGY_REGISTRY' = STRATEGY_REGISTRY]_vars

\* C5 as stated: any two ids that differ only in letter case get the same
\* answer from get_strategy_metadata, is_human_exploitable and
\* get_complexity.
C5_LookupIgnoresCase ==
    \A p \in PairsUpToCase :
        /\ Looked(p[1]) = Looked(p[2])
        /\ is_human_exploitable(p[1]) = is_human_exploitable(p[2])
        /\ get_complexity(p[1]) = get_complexity(p[2])

\* C5 amended: any two ids with the same str.lower() form (every two ASCII
\* ids that differ only in letter case) get the same answer from
\* get_strategy_metadata, is_human_exploitable and get_complexity, also for
\* ids added by register_strategy in mixed case.
C5_LookupIgnoresLoweredCase ==
    \A p \in PairsSameLowered :
        /\ Looked(p[1]) = Looked(p[2])
        /\ is_human_exploitable(p[1]) = is_human_exploitable(p[2])
        /\ get_complexity(p[1]) = get_complexity(p[2])

\* "CUSTOM1" was registered and get_complexity("custom1") returned the
\* registered value, not the fallback's.
C5_Witness ==
    /\ prev.op = "register_strategy"
    /\ prev.strategy_id = ID_CUSTOM1
    /\ call = Call("get_complexity", ID_custom1, <<>>)
    /\ ret = Returned("str", prev.args[2])
    /\ ret.value # STRATEGY_REGISTRY[KEY_unknown].complexity

C7_AccessorsAgreeWithLookup ==
    /\ \A id \in StrategyIds :
          LET m == Looked(id)
          IN  /\ is_human_exploitable(id) = Returned("bool", m.human_exploitable)
              /\ get_complexity(id) = Returned("str", m.complexity)
    /\ call.op = "is_human_exploitable" =>
          ret = Returned("bool", Looked(call.strategy_id).human_exploitable)
    /\ call.op = "get_complexity" =>
          ret = Returned("str", Looked(call.strategy_id).complexity)

\* is_human_exploitable of an unrecognized id returned the field of the
\* re-registered "unknown" entry.
C7_Witness ==
    /\ KEY_unknown \in registered
    /\ call = Call("is_human_exploitable", ID_nonexistent, <<>>)
    /\ Lower(ID_nonexistent) \notin DOMAIN STRATEGY_REGISTRY
    /\ ret = Returned("bool", TRUE)

\* The table of section 6 of the specification: id, human_exploitable,
\* complexity, category.
SpecTable ==
    {
       [id |-> <<"b", "a", "s", "e", "6", "4">>,
        human_exploitable |-> TRUE, complexity |-> "low", category |-> Some("LLM_01")],
       [id |-> <<"r", "o", "t", "1", "3">>,
        human_exploitable |-> TRUE, complexity |-> "low", category |-> Some("LLM_01")],
       [id |-> <<"l", "e", "e", "t", "s", "p", "e", "a", "k">>,
        human_exploitable |-> TRUE, complexity |-> "low", category |-> Some("LLM_01")],
       [id |-> <<"p", "a", "y", "l", "o", "a", "d", "_", "s", "p", "l", "i", "t", "t", "i", "n", "g">>,
        human_exploitable |-> TRUE, complexity |-> "medium", category |-> Some("LLM_01")],
       [id |-> <<"j", "a", "i", "l", "b", "r", "e", "a", "k", "_", "l", "i", "n", "e", "a", "r">>,
        human_exploitable |-> TRUE, complexity |-> "low", category |-> Some("LLM_01")],
       [id |-> <<"p", "r", "o", "m", "p", "t", "_", "i", "n", "j", "e", "c", "t", "i", "o", "n">>,
        human_exploitable |-> TRUE, complexity |-> "low", category |-> Some("LLM_01")],
       [id |-> <<"r", "o", "l", "e", "_", "p", "l", "a", "y">>,
        human_exploitable |-> TRUE, complexity |-> "medium", category |-> Some("LLM_01")],
       [id |-> <<"m", "u", "l", "t", "i", "l", "i", "n", "g", "u", "a", "l">>,
        human_exploitable |-> TRUE, complexity |-> "medium", category |-> Some("LLM_01")],
       [id |-> <<"c", "r", "e", "s", "c", "e", "n", "d", "o">>,
        human_exploitable |-> TRUE, complexity |-> "medium", category |-> Some("LLM_01")],
       [id |-> <<"t", "r", "e", "e">>,
        human_exploitable |-> FALSE, complexity |-> "high", category |-> Some("LLM_01")],
       [id |-> <<"l", "i", "n", "e", "a", "r", "_", "m", "u", "l", "t", "i", "_", "t", "u", "r", "n">>,
        human_exploitable |-> TRUE, complexity |-> "low", category |-> Some("LLM_01")],
       [id |-> <<"h", "y", "d", "r", "a">>,
        human_exploitable |-> FALSE, complexity |-> "high", category |-> Some("LLM_01")],
       [id |-> <<"g", "o", "a", "t">>,
        human_exploitable |-> FALSE, complexity |-> "high", category |-> Some("LLM_01")],
       [id |-> <<"i", "t", "e", "r", "a", "t", "i", "v", "e", "_", "b", "a", "s", "i", "c">>,
        human_exploitable |-> FALSE, complexity |-> "medium", category |-> Some("LLM_01")],
       [id |-> <<"i", "t", "e", "r", "a", "t", "i", "v", "e", "_", "t", "r", "e", "e">>,
        human_exploitable |-> FALSE, complexity |-> "high", category |-> Some("LLM_01")],
       [id |-> <<"i", "t", "e", "r", "a", "t", "i", "v", "e", "_", "m", "e", "t", "a">>,
        human_exploitable |-> FALSE, complexity |-> "high", category |-> Some("LLM_01")],
       [id |-> <<"s", "i", "m", "b", "a">>,
        human_exploitable |-> FALSE, complexity |-> "high", category |-> Some("LLM_01")],
       [id |-> <<"m", "i", "s", "c", "h", "i", "e", "v", "o", "u", "s", "_", "u", "s", "e", "r">>,
        human_exploitable |-> TRUE, complexity |-> "low", category |-> Some("LLM_01")],
       [id |-> <<"p", "i", "i", "_", "e", "x", "t", "r", "a", "c", "t", "i", "o", "n">>,
        human_exploitable |-> TRUE, complexity |-> "low", category |-> Some("LLM_06")],
       [id |-> <<"s", "y", "s", "t", "e", "m", "_", "p", "r", "o", "m", "p", "t", "_", "l", "e", "a", "k">>,
        human_exploitable |-> TRUE, complexity |-> "low", category |-> Some("LLM_06")],
       [id |-> <<"h", "t", "m", "l", "-", "i", "n", "d", "i", "r", "e", "c", "t", "-", "p", "r", "o", "m", "p", "t", "-", "i", "n", "j", "e", "c", "t", "i", "o", "n">>,
        human_exploitable |-> TRUE, complexity |-> "low", category |-> Some("LLM_02")],
       [id |-> <<"s", "q", "l", "_", "i", "n", "j", "e", "c", "t", "i", "o", "n">>,
        human_exploitable |-> TRUE, complexity |-> "medium", category |-> Some("LLM_02")],
       [id |-> <<"c", "r", "o", "s", "s", "_", "s", "i", "t", "e", "_", "s", "c", "r", "i", "p", "t", "i", "n", "g">>,
        human_exploitable |-> TRUE, complexity |-> "medium", category |-> Some("LLM_02")],
       [id |-> <<"u", "n", "a", "u", "t", "h", "o", "r", "i", "z", "e", "d", "_", "a", "c", "t", "i", "o", "n">>,
        human_exploitable |-> TRUE, complexity |-> "medium", category |-> Some("LLM_08")],
       [id |-> <<"u", "n", "k", "n", "o", "w", "n">>,
        human_exploitable |-> FALSE, complexity |-> "medium", category |-> None]
    }

\* C8: before any register_strategy call the key set is exactly the 25 ids
\* of the table (24 strategies and "unknown"), and get_strategy_metadata of
\* each returns the table's human_exploitable, complexity and category.
C8_InitialRegistryIsTheTable ==
    nregs = 0 =>
        /\ DOMAIN STRATEGY_REGISTRY = {r.id : r \in SpecTable}
        /\ Cardinality(DOMAIN STRATEGY_REGISTRY) = 25
        /\ \A r \in SpecTable :
              LET g == get_strategy_metadata(r.id)
                  m == Deref(g.value)
              IN  /\ g.kind = "StrategyMetadata"
                  /\ m.human_exploitable = r.human_exploitable
                  /\ m.complexity = r.complexity
                  /\ m.category = r.category

\* Before any registration, a lookup of "Base64" returned the table's row.
C8_Witness ==
    /\ nregs = 0
    /\ call = Call("get_strategy_metadata", ID_Base64, <<>>)
    /\ Deref(ret.value).human_exploitable = TRUE
    /\ Deref(ret.value).complexity = "low"
    /\ Deref(ret.value).category = Some("LLM_01")

\* C9: every key of the registry is its own lowercase form, holds no
\* upper-case letter, and no two keys differ only in letter case.
C9_KeysAreLowercase ==
    /\ \A k \in DOMAIN STRATEGY_REGISTRY :
          /\ Lower(k) = k
          /\ \A i \in 1..Len(k) : ~IsUpperChar(k[i])
    /\ Cardinality({CaseFolded(k) : k \in DOMAIN STRATEGY_REGISTRY})
          = Cardinality(DOMAIN STRATEGY_REGISTRY)

\* "custom1" and then "CUSTOM1" were registered: one key, in lower case.
C9_Witness ==
    /\ prev.op = "register_strategy"
    /\ prev.strategy_id = ID_custom1
    /\ call.op = "register_strategy"
    /\ call.strategy_id = ID_CUSTOM1
    /\ ID_custom1 \in DOMAIN STRATEGY_REGISTRY
    /\ ID_CUSTOM1 \notin DOMAIN STRATEGY_REGISTRY
    /\ Cardinality(DOMAIN STRATEGY_REGISTRY) = 26

\* C10: register_strategy(id, ...) changes at most the entry under
\* lowercase(id): every other key keeps its entry and no key is lost; the
\* four accessors leave the registry as it is.
C10_Frame ==
    [][IF call'.op = "register_strategy" /\ nregs' = nregs + 1
       THEN /\ DOMAIN STRATEGY_REGISTRY \subseteq DOMAIN STRATEGY_REGISTRY'
            /\ DOMAIN STRATEGY_REGISTRY' \subseteq
                  DOMAIN STRATEGY_REGISTRY \cup {Lower(call'.strategy_id)}
            /\ \A k \in DOMAIN STRATEGY_REGISTRY \ {Lower(call'.strategy_id)} :
                  STRATEGY_REGISTRY'[k] = STRATEGY_REGISTRY[k]
       ELSE STRATEGY_REGISTRY' = STRATEGY_REGISTRY]_vars

\* Two different keys were registered one after the other, and the first
\* entry is still what was registered.
C10_Witness ==
    /\ prev.op = "register_strategy"
    /\ call.op = "register_strategy"
    /\ prev.strategy_id = ID_custom1
    /\ call.strategy_id = ID_a_sigma
    /\ STRATEGY_REGISTRY[Lower(prev.strategy_id)] = MetadataOf(prev.args)
    /\ STRATEGY_REGISTRY[Lower(call.strategy_id)] = MetadataOf(call.args)
    /\ \A k \in DOMAIN InitialRegistry : STRATEGY_REGISTRY[k] = InitialRegistry[k]

====
